---- MODULE Spec2Model ----
(***************************************************************************)
(* Model of the three programs of telogator2_multi_species:               *)
(*   src/source/make_tg_multi_species.py  convert_fai_to_indexes           *)
(*   src/stats/telogator_qc_stats.py      main (coverage report)           *)
(*   src/stats/tel_allele_stats.py        generate_tlens_summary + script  *)
(* Python strings are modelled as sequences of one-character strings, so   *)
(* that split, strip, lower, isdigit, int and string comparison are        *)
(* computed character by character as the interpreter does.                *)
(***************************************************************************)
EXTENDS Integers, Sequences, FiniteSets, TLC

(* ------------------------------------------------------------------ *)
(* Bounds of the model                                                 *)
(* ------------------------------------------------------------------ *)
MaxRows == 3
MaxFaiLines == 3
MaxQcFaiLines == 2

(* ------------------------------------------------------------------ *)
(* Characters and Python string primitives                             *)
(* ------------------------------------------------------------------ *)
DigitChars == <<"0", "1", "2", "3", "4", "5", "6", "7", "8", "9">>
UpperChars == <<"A", "B", "C", "D", "E", "F", "G", "H", "I", "J", "K", "L", "M",
                "N", "O", "P", "Q", "R", "S", "T", "U", "V", "W", "X", "Y", "Z">>
LowerChars == <<"a", "b", "c", "d", "e", "f", "g", "h", "i", "j", "k", "l", "m",
                "n", "o", "p", "q", "r", "s", "t", "u", "v", "w", "x", "y", "z">>
OtherChars == {"\t", "\n", " ", ",", "#", "_", "-", "+", ".", "/"}
Range(s) == {s[i] : i \in DOMAIN s}
Chars == Range(DigitChars) \cup Range(UpperChars) \cup Range(LowerChars) \cup OtherChars

IndexIn(c, s) == CHOOSE i \in DOMAIN s : s[i] = c

\* ord(c): the code point of a character
Ord == [c \in Chars |->
          IF c \in Range(DigitChars) THEN 47 + IndexIn(c, DigitChars)
          ELSE IF c \in Range(UpperChars) THEN 64 + IndexIn(c, UpperChars)
          ELSE IF c \in Range(LowerChars) THEN 96 + IndexIn(c, LowerChars)
          ELSE CASE c = "\t" -> 9 [] c = "\n" -> 10 [] c = " " -> 32
                 [] c = "#" -> 35 [] c = "+" -> 43 [] c = "," -> 44
                 [] c = "-" -> 45 [] c = "." -> 46 [] c = "/" -> 47
                 [] c = "_" -> 95]

\* c.lower() of one character
LowerChar == [c \in Chars |->
                IF c \in Range(UpperChars) THEN LowerChars[IndexIn(c, UpperChars)] ELSE c]

\* s.lower()
Lower(s) == [i \in DOMAIN s |-> LowerChar[s[i]]]

IsDigitChar(c) == c \in Range(DigitChars)
IsSpaceChar(c) == c \in {" ", "\t", "\n"}

\* s.isdigit(): non-empty and every character a digit
IsDigit(s) == s /= <<>> /\ \A i \in DOMAIN s : IsDigitChar(s[i])

RECURSIVE DigitsValue(_, _)
DigitsValue(s, acc) ==
  IF s = <<>> THEN acc
  ELSE DigitsValue(Tail(s), 10 * acc + (IndexIn(s[1], DigitChars) - 1))

RECURSIVE LStrip(_)
LStrip(s) == IF s /= <<>> /\ IsSpaceChar(s[1]) THEN LStrip(Tail(s)) ELSE s

RECURSIVE RStrip(_)
RStrip(s) ==
  IF s /= <<>> /\ IsSpaceChar(s[Len(s)]) THEN RStrip(SubSeq(s, 1, Len(s) - 1)) ELSE s

\* s.strip()
Strip(s) == RStrip(LStrip(s))

RECURSIVE SplitFrom(_, _, _, _, _)
SplitFrom(s, sep, i, acc, cur) ==
  IF i > Len(s) THEN Append(acc, cur)
  ELSE IF s[i] = sep THEN SplitFrom(s, sep, i + 1, Append(acc, cur), <<>>)
  ELSE SplitFrom(s, sep, i + 1, acc, Append(cur, s[i]))

\* s.split(sep) for a one-character separator: empty parts are kept
Split(s, sep) == SplitFrom(s, sep, 1, <<>>, <<>>)

\* Python's < on str: lexicographic by code point, a proper prefix is smaller
RECURSIVE StrLess(_, _)
StrLess(a, b) ==
  IF b = <<>> THEN FALSE
  ELSE IF a = <<>> THEN TRUE
  ELSE IF a[1] = b[1] THEN StrLess(Tail(a), Tail(b))
  ELSE Ord[a[1]] < Ord[b[1]]

\* int(s) succeeds: surrounding whitespace, an optional sign, then digits only
\* (digit-group underscores do not occur in the inputs modelled)
Unsigned(s) == IF s /= <<>> /\ s[1] \in {"+", "-"} THEN Tail(s) ELSE s
IntParses(s) == IsDigit(Unsigned(Strip(s)))
IntValue(s) ==
  LET t == Strip(s) IN
  IF t[1] = "-" THEN 0 - DigitsValue(Unsigned(t), 0) ELSE DigitsValue(Unsigned(t), 0)

\* chrom_name.replace("chr", "")
CHR == <<"c", "h", "r">>
RECURSIVE RemoveChr(_)
RemoveChr(s) ==
  IF Len(s) >= 3 /\ SubSeq(s, 1, 3) = CHR THEN RemoveChr(SubSeq(s, 4, Len(s)))
  ELSE IF s = <<>> THEN <<>>
  ELSE <<s[1]>> \o RemoveChr(Tail(s))

SeqsUpTo(S, n) == UNION {[1..k -> S] : k \in 0..n}

(* ------------------------------------------------------------------ *)
(* Inputs: the lines a reference index may hold, the end fields and    *)
(* TL_p75 cells a measurement table may hold, its header               *)
(* ------------------------------------------------------------------ *)
TAB == <<"\t">>
NL == <<"\n">>
ChrName(digits) == CHR \o digits
ChrU == ChrName(<<"U">>)
FaiLine(name, size) == name \o TAB \o size \o NL

\* "chr2\t2000\n", "chr10\t300\n", "chrU\t500\n": well-formed records
\* "chr3\tabc\n": a length that is no integer;  "chrm\n": one field;  "\n": blank
FaiLineUniverse ==
  { FaiLine(ChrName(<<"2">>), <<"2", "0", "0", "0">>),
    FaiLine(ChrName(<<"1", "0">>), <<"3", "0", "0">>),
    FaiLine(ChrU, <<"5", "0", "0">>),
    FaiLine(ChrName(<<"3">>), <<"a", "b", "c">>),
    ChrName(<<"m">>) \o NL,
    NL }

\* The indexes the coverage report is run on in this model
QcFaiLineUniverse ==
  { FaiLine(ChrName(<<"2">>), <<"2", "0", "0", "0">>),
    FaiLine(ChrName(<<"1", "0">>), <<"3", "0", "0">>),
    FaiLine(ChrU, <<"5", "0", "0">>),
    ChrName(<<"m">>) \o NL }

P == <<"p">>
Q == <<"q">>
COMMA == <<",">>
SPACE == <<" ">>
Chr2p == ChrName(<<"2">>) \o P
Chr10p == ChrName(<<"1", "0">>) \o P
NoneToken == <<"n", "o", "n", "e">>
NanToken == <<"n", "a", "n">>

\* "chr2p", "chr10p,chr2p", "chr2p, " (a trailing comma and blank), "" (an empty cell)
EndFieldUniverse == { Chr2p, Chr10p \o COMMA \o Chr2p, Chr2p \o COMMA \o SPACE, <<>> }

\* TL_p75 cells: "-5", "90.7", "150", "n/a" (no number), "inf"
TlCellUniverse ==
  { <<"-", "5">>, <<"9", "0", ".", "7">>, <<"1", "5", "0">>, <<"n", "/", "a">>,
    <<"i", "n", "f">> }

\* Headers of the measurement table
HeaderUniverse == { {"#chr", "TL_p75"}, {"chr", "TL_p75"}, {"#chr"}, {"TL_p75"} }

VARIABLES
  prog,                  \* which program this run executes
  pc,                    \* position in the program
  exit_status,           \* "running", or the status the process ended with
  input_exists,          \* the measurement table path resolves
  fai_exists,            \* the reference index path resolves
  fai_lines,             \* lines of the reference index read so far
  columns,               \* df.columns
  df,                    \* rows of the measurement table iterated so far
  expected_ends, found_ends, ambiguous_set, total_count, unambiguous_count,
  missing_ends, ambiguous_ends_sorted, output_lines,
  max_tl_by_end, max_tl_df,
  lexico_2_ind, t2t_chromsize, chrom_digits, current_index,
  output_opened          \* open(output, 'w') has succeeded (the file is truncated)

envVars == <<prog, input_exists, fai_exists>>
qcVars == <<expected_ends, found_ends, ambiguous_set, total_count, unambiguous_count,
            missing_ends, ambiguous_ends_sorted, output_lines>>
sumVars == <<max_tl_by_end, max_tl_df>>
faiVars == <<lexico_2_ind, t2t_chromsize, chrom_digits, current_index>>
vars == <<prog, pc, exit_status, input_exists, fai_exists, fai_lines, columns, df,
          expected_ends, found_ends, ambiguous_set, total_count, unambiguous_count,
          missing_ends, ambiguous_ends_sorted, output_lines,
          max_tl_by_end, max_tl_df,
          lexico_2_ind, t2t_chromsize, chrom_digits, current_index, output_opened>>

EmptyDict == <<>>
DictSet(d, k, v) == (k :> v) @@ d

\* The state every program starts from: nothing read, nothing computed
Blank ==
  /\ pc = "start" /\ exit_status = "running"
  /\ fai_lines = <<>> /\ columns = {} /\ df = <<>>
  /\ expected_ends = <<>> /\ found_ends = {} /\ ambiguous_set = {}
  /\ total_count = 0 /\ unambiguous_count = 0
  /\ missing_ends = <<>> /\ ambiguous_ends_sorted = <<>> /\ output_lines = <<>>
  /\ max_tl_by_end = EmptyDict /\ max_tl_df = <<>>
  /\ lexico_2_ind = EmptyDict /\ t2t_chromsize = EmptyDict
  /\ chrom_digits = <<>> /\ current_index = 1
  /\ output_opened = FALSE

Exit(status) == pc' = "exit" /\ exit_status' = status

(* ------------------------------------------------------------------ *)
(* make_tg_multi_species.py: convert_fai_to_indexes                    *)
(* ------------------------------------------------------------------ *)
FaiState(l2i, sizes, digits, idx) ==
  [lexico_2_ind |-> l2i, t2t_chromsize |-> sizes, chrom_digits |-> digits,
   current_index |-> idx]

FaiStart == FaiState(EmptyDict, EmptyDict, <<>>, 1)

\* Faulty variant of FaiSkip: a parse failure moves the index on
FaiSkipBumps(st, digits) ==
  [st EXCEPT !.chrom_digits = digits, !.current_index = st.current_index + 1]

\* Lines 31-34: the name is already in chrom_digits, the record is skipped
FaiSkip(st, digits) == [st EXCEPT !.chrom_digits = digits]

\* The body of "for line in f"
FaiStep(st, line) ==
  LET fields == Split(Strip(line), "\t") IN
  IF Len(fields) >= 2
  THEN LET chrom_name == fields[1]
           digits == Append(st.chrom_digits, RemoveChr(chrom_name))
       IN IF IntParses(fields[2])
          THEN FaiState(DictSet(st.lexico_2_ind, chrom_name, st.current_index),
                        DictSet(st.t2t_chromsize, chrom_name, IntValue(fields[2])),
                        digits,
                        st.current_index + 1)
          ELSE FaiSkip(st, digits)
  ELSE st

\* After the loop: chrU is added when the index did not name it
FaiAddChrU(st) ==
  IF ChrU \notin DOMAIN st.lexico_2_ind
  THEN [st EXCEPT !.lexico_2_ind = DictSet(st.lexico_2_ind, ChrU, st.current_index)]
  ELSE st

RECURSIVE FaiFold(_, _)
FaiFold(st, lines) ==
  IF lines = <<>> THEN st ELSE FaiFold(FaiStep(st, lines[1]), Tail(lines))

\* convert_fai_to_indexes on a whole index
ConvertFai(lines) == FaiAddChrU(FaiFold(FaiStart, lines))

FaiCur == FaiState(lexico_2_ind, t2t_chromsize, chrom_digits, current_index)
FaiSetTo(st) ==
  /\ lexico_2_ind' = st.lexico_2_ind
  /\ t2t_chromsize' = st.t2t_chromsize
  /\ chrom_digits' = st.chrom_digits
  /\ current_index' = st.current_index

InitFai == prog = "fai" /\ input_exists = TRUE /\ fai_exists \in BOOLEAN /\ Blank

\* open(fai_file): FileNotFoundError ends the process with status 1
FaiOpen ==
  /\ prog = "fai" /\ pc = "start"
  /\ IF fai_exists THEN pc' = "lines" /\ exit_status' = exit_status ELSE Exit("1")
  /\ UNCHANGED <<envVars, fai_lines, columns, df, qcVars, sumVars, faiVars, output_opened>>

FaiReadLine ==
  /\ prog = "fai" /\ pc = "lines" /\ Len(fai_lines) < MaxFaiLines
  /\ \E line \in FaiLineUniverse :
       /\ fai_lines' = Append(fai_lines, line)
       /\ FaiSetTo(FaiStep(FaiCur, line))
  /\ UNCHANGED <<envVars, pc, exit_status, columns, df, qcVars, sumVars, output_opened>>

FaiReturn ==
  /\ prog = "fai" /\ pc = "lines"
  /\ FaiSetTo(FaiAddChrU(FaiCur))
  /\ pc' = "returned"
  /\ UNCHANGED <<envVars, exit_status, fai_lines, columns, df, qcVars, sumVars, output_opened>>

NextFai == FaiOpen \/ FaiReadLine \/ FaiReturn
SpecFai == InitFai /\ [][NextFai]_vars

(* ------------------------------------------------------------------ *)
(* telogator_qc_stats.py: the coverage report                          *)
(* ------------------------------------------------------------------ *)

\* re.split('([0-9]+)', s): text, digits, text, ... ; the first and the last
\* element are text runs, empty when s starts or ends with a digit
RECURSIVE ReSplitFrom(_, _, _, _, _)
ReSplitFrom(s, i, acc, dig, cur) ==
  IF i > Len(s) THEN (IF dig THEN acc \o <<cur, <<>>>> ELSE Append(acc, cur))
  ELSE IF IsDigitChar(s[i]) = dig THEN ReSplitFrom(s, i + 1, acc, dig, Append(cur, s[i]))
  ELSE ReSplitFrom(s, i + 1, Append(acc, cur), ~dig, <<s[i]>>)

ReSplitDigits(s) == ReSplitFrom(s, 1, <<>>, FALSE, <<>>)

IntElem(n) == [isInt |-> TRUE, n |-> n, s |-> <<>>]
StrElem(t) == [isInt |-> FALSE, n |-> 0, s |-> t]

\* Faulty variant of KeyElem: no int(), every run stays text
KeyElemText(text) == StrElem(Lower(text))

\* int(text) if text.isdigit() else text.lower()
KeyElem(text) == IF IsDigit(text) THEN IntElem(DigitsValue(text, 0)) ELSE StrElem(Lower(text))

natural_sort_key(s) ==
  LET runs == ReSplitDigits(s) IN [i \in DOMAIN runs |-> KeyElem(runs[i])]

\* < on two key elements. Text runs sit at the odd positions of every key and
\* digit runs at the even ones, so Python never compares an int with a str here.
ElemLess(x, y) ==
  IF x.isInt /\ y.isInt THEN x.n < y.n
  ELSE IF ~x.isInt /\ ~y.isInt THEN StrLess(x.s, y.s)
  ELSE FALSE

\* < on two lists: the first differing element decides, a proper prefix is smaller
RECURSIVE KeyLess(_, _)
KeyLess(a, b) ==
  IF b = <<>> THEN FALSE
  ELSE IF a = <<>> THEN TRUE
  ELSE IF a[1] = b[1] THEN KeyLess(Tail(a), Tail(b))
  ELSE ElemLess(a[1], b[1])

\* Lines 33-40: two expected ends for every line that is not blank
RECURSIVE QcExpectedEnds(_)
QcExpectedEnds(lines) ==
  IF lines = <<>> THEN <<>>
  ELSE LET line == lines[1] IN
       (IF Strip(line) /= <<>>
        THEN LET chrom == Split(line, "\t")[1] IN <<chrom \o P, chrom \o Q>>
        ELSE <<>>) \o QcExpectedEnds(Tail(lines))

\* str(entry) of a cell read by pandas: an empty cell is NaN, printed "nan"
CellStr(cell) == IF cell = <<>> THEN NanToken ELSE cell

\* parts = [p.strip() for p in str(entry).split(',')]
QcParts(entry) ==
  LET raw == Split(CellStr(entry), ",") IN [i \in DOMAIN raw |-> Strip(raw[i])]

\* Every string the coverage report can meet as an end with the inputs above, and
\* its key, computed once
QcEndUniverse ==
  UNION {Range(QcParts(f)) : f \in EndFieldUniverse}
    \cup UNION {Range(QcExpectedEnds(<<l>>)) : l \in QcFaiLineUniverse}
QcPartsTable == [f \in EndFieldUniverse |-> QcParts(f)]
NatKeyTable == [e \in QcEndUniverse |-> natural_sort_key(e)]
NatKey(e) == IF e \in QcEndUniverse THEN NatKeyTable[e] ELSE natural_sort_key(e)

NatLess(a, b) == KeyLess(NatKey(a), NatKey(b))

\* sorted(list, key=natural_sort_key): stable
RECURSIVE InsertByKey(_, _)
InsertByKey(x, sorted) ==
  IF sorted = <<>> THEN <<x>>
  ELSE IF NatLess(x, sorted[1]) THEN <<x>> \o sorted
  ELSE <<sorted[1]>> \o InsertByKey(x, Tail(sorted))

RECURSIVE SortedByKey(_, _)
SortedByKey(list, acc) ==
  IF list = <<>> THEN acc ELSE SortedByKey(Tail(list), InsertByKey(list[1], acc))

\* sorted(list(a_set), key=natural_sort_key): the set is listed in an order the
\* program does not control, so elements with equal keys may come out either way
RECURSIVE SortedListsOfSet(_)
SortedListsOfSet(S) ==
  IF S = {} THEN {<<>>}
  ELSE UNION { {<<m>> \o t : t \in SortedListsOfSet(S \ {m})} :
               m \in {x \in S : \A y \in S : ~NatLess(y, x)} }

\* Faulty variant of QcFound: found_ends recorded only for single-end rows
QcFoundSingleOnly(found, parts) ==
  IF Len(parts) > 1 THEN found ELSE found \cup Range(parts)

\* Lines 74-75
QcFound(found, parts) == found \cup Range(parts)

\* Lines 68-72
QcAmbiguous(ambiguous, parts) ==
  IF Len(parts) > 1 THEN ambiguous \cup Range(parts) ELSE ambiguous

QcUnambiguous(count, parts) == IF Len(parts) > 1 THEN count ELSE count + 1

\* Line 78
QcMissing(expected, found) ==
  SortedByKey(SelectSeq(expected, LAMBDA e : e \notin found), <<>>)

Max(a, b) == IF a >= b THEN a ELSE b

\* Lines 90-101: the rows of the two-column listing
QcTable(ambig, missing) ==
  LET max_rows == Max(Len(ambig), Len(missing)) IN
  IF max_rows = 0 THEN << [ambig |-> NoneToken, miss |-> NoneToken] >>
  ELSE [i \in 1..max_rows |->
          [ambig |-> IF i <= Len(ambig) THEN ambig[i] ELSE <<>>,
           miss |-> IF missing = <<>>
                    THEN (IF i = 1 THEN NoneToken ELSE <<>>)
                    ELSE (IF i <= Len(missing) THEN missing[i] ELSE <<>>)]]

\* Lines 58-59: '#chr' when present, else 'chr', and one of them must exist
QcHasEndColumn(header) == "#chr" \in header \/ "chr" \in header

InitQc == prog = "qc" /\ input_exists \in BOOLEAN /\ fai_exists \in BOOLEAN /\ Blank

\* Lines 18-22: no argument at all prints the help and exits 1; argparse itself
\* exits 2 when a required option is missing
QcParseArgs ==
  /\ prog = "qc" /\ pc = "start"
  /\ \E argv \in {"none", "incomplete", "complete"} :
       CASE argv = "none" -> Exit("1")
         [] argv = "incomplete" -> Exit("2")
         [] argv = "complete" -> pc' = "check_files" /\ exit_status' = exit_status
  /\ UNCHANGED <<envVars, fai_lines, columns, df, qcVars, sumVars, faiVars, output_opened>>

\* Lines 25-30
QcCheckFiles ==
  /\ prog = "qc" /\ pc = "check_files"
  /\ IF ~input_exists \/ ~fai_exists THEN Exit("1")
     ELSE pc' = "read_fai" /\ exit_status' = exit_status
  /\ UNCHANGED <<envVars, fai_lines, columns, df, qcVars, sumVars, faiVars, output_opened>>

\* Lines 33-40
QcReadFai ==
  /\ prog = "qc" /\ pc = "read_fai"
  /\ \E lines \in SeqsUpTo(QcFaiLineUniverse, MaxQcFaiLines) :
       /\ fai_lines' = lines
       /\ expected_ends' = QcExpectedEnds(lines)
  /\ pc' = "read_csv"
  /\ UNCHANGED <<envVars, exit_status, columns, df, found_ends, ambiguous_set, total_count,
                 unambiguous_count, missing_ends, ambiguous_ends_sorted, output_lines,
                 sumVars, faiVars, output_opened>>

\* Lines 41-43: the index exists and cannot be read
QcReadFaiFails ==
  /\ prog = "qc" /\ pc = "read_fai"
  /\ Exit("1")
  /\ UNCHANGED <<envVars, fai_lines, columns, df, qcVars, sumVars, faiVars, output_opened>>

\* Lines 46-61: pd.read_csv, then the choice of the end column
QcReadCsv ==
  /\ prog = "qc" /\ pc = "read_csv"
  /\ \E header \in HeaderUniverse :
       /\ columns' = header
       /\ IF ~QcHasEndColumn(header) THEN Exit("1")
          ELSE pc' = "rows" /\ exit_status' = exit_status
  /\ UNCHANGED <<envVars, fai_lines, df, qcVars, sumVars, faiVars, output_opened>>

\* Lines 48-50: the table exists and cannot be parsed
QcReadCsvFails ==
  /\ prog = "qc" /\ pc = "read_csv"
  /\ Exit("1")
  /\ UNCHANGED <<envVars, fai_lines, columns, df, qcVars, sumVars, faiVars, output_opened>>

\* Lines 63-75: the body of "for entry in df[chr_col]"
QcRow ==
  /\ prog = "qc" /\ pc = "rows" /\ Len(df) < MaxRows
  /\ \E entry \in EndFieldUniverse :
       LET parts == QcPartsTable[entry] IN
       /\ df' = Append(df, [chr |-> entry])
       /\ total_count' = total_count + Len(parts)
       /\ ambiguous_set' = QcAmbiguous(ambiguous_set, parts)
       /\ unambiguous_count' = QcUnambiguous(unambiguous_count, parts)
       /\ found_ends' = QcFound(found_ends, parts)
  /\ UNCHANGED <<envVars, pc, exit_status, fai_lines, columns, expected_ends, missing_ends,
                 ambiguous_ends_sorted, output_lines, sumVars, faiVars, output_opened>>

\* Lines 78-101, once the loop is over
QcFormat ==
  /\ prog = "qc" /\ pc = "rows"
  /\ \E ambig \in SortedListsOfSet(ambiguous_set) :
       LET missing == QcMissing(expected_ends, found_ends) IN
       /\ missing_ends' = missing
       /\ ambiguous_ends_sorted' = ambig
       /\ output_lines' = [unambiguous |-> unambiguous_count, total |-> total_count,
                           table |-> QcTable(ambig, missing)]
  /\ pc' = "write"
  /\ UNCHANGED <<envVars, exit_status, fai_lines, columns, df, expected_ends, found_ends,
                 ambiguous_set, total_count, unambiguous_count, sumVars, faiVars,
                 output_opened>>

\* Lines 104-110
QcWrite ==
  /\ prog = "qc" /\ pc = "write"
  /\ \E outcome \in {"open_fails", "write_fails", "written"} :
       /\ output_opened' = (outcome /= "open_fails")
       /\ IF outcome = "written" THEN pc' = "done" /\ exit_status' = "0" ELSE Exit("1")
  /\ UNCHANGED <<envVars, fai_lines, columns, df, qcVars, sumVars, faiVars>>

NextQc ==
  \/ QcParseArgs \/ QcCheckFiles \/ QcReadFai \/ QcReadFaiFails
  \/ QcReadCsv \/ QcReadCsvFails \/ QcRow \/ QcFormat \/ QcWrite
SpecQc == InitQc /\ [][NextQc]_vars

(* ------------------------------------------------------------------ *)
(* tel_allele_stats.py: the summary report                             *)
(* ------------------------------------------------------------------ *)

\* pd.to_numeric(cell, errors='coerce'): a decimal number (kept here to its
\* first decimal, in tenths), an infinity, or NaN for anything else
ToNumeric(cell) ==
  LET t == Strip(cell)
      body == Unsigned(t)
      sign == IF t /= <<>> /\ t[1] = "-" THEN 0 - 1 ELSE 1
      halves == Split(body, ".")
      whole == halves[1]
      frac == IF Len(halves) = 2 THEN halves[2] ELSE <<>>
  IN IF Lower(body) \in {<<"i", "n", "f">>, <<"i", "n", "f", "i", "n", "i", "t", "y">>}
     THEN [kind |-> "inf", tenths |-> 0]
     ELSE IF /\ Len(halves) <= 2
             /\ whole \o frac /= <<>>
             /\ \A i \in DOMAIN whole : IsDigitChar(whole[i])
             /\ \A i \in DOMAIN frac : IsDigitChar(frac[i])
     THEN [kind |-> "num",
           tenths |-> sign * (10 * DigitsValue(whole, 0)
                              + (IF frac = <<>> THEN 0 ELSE DigitsValue(<<frac[1]>>, 0)))]
     ELSE [kind |-> "nan", tenths |-> 0]

\* int(x) of a float: truncation towards zero
IntTrunc(tenths) == IF tenths >= 0 THEN tenths \div 10 ELSE 0 - ((0 - tenths) \div 10)

\* Lines 53-58: the ends of a row, stripped, empty ones skipped
SumEnds(field) ==
  LET raw == Split(CellStr(field), ",")
      stripped == [i \in DOMAIN raw |-> Strip(raw[i])]
  IN SelectSeq(stripped, LAMBDA e : e /= <<>>)

\* The conversions of the cells and end fields above, computed once
NumericTable == [c \in TlCellUniverse |-> ToNumeric(c)]
Numeric(cell) == IF cell \in TlCellUniverse THEN NumericTable[cell] ELSE ToNumeric(cell)
SumEndsTable == [f \in EndFieldUniverse |-> SumEnds(f)]
EndsOf(field) == IF field \in EndFieldUniverse THEN SumEndsTable[field] ELSE SumEnds(field)

\* Faulty variant of SumUpdate: the last row wins
SumUpdateOverwrite(d, end, tl) == DictSet(d, end, tl)

\* Line 61
SumUpdate(d, end, tl) ==
  DictSet(d, end, Max(IF end \in DOMAIN d THEN d[end] ELSE 0 - 1, tl))

RECURSIVE SumUpdateAll(_, _, _)
SumUpdateAll(d, ends, tl) ==
  IF ends = <<>> THEN d ELSE SumUpdateAll(SumUpdate(d, ends[1], tl), Tail(ends), tl)

\* Lines 40-61 for one row: a row whose TL_p75 is NaN after coercion is dropped
SumRowStep(d, row) ==
  LET num == Numeric(row.TL_p75) IN
  IF num.kind = "nan" THEN d
  ELSE SumUpdateAll(d, EndsOf(row.chr), IntTrunc(num.tenths))

RECURSIVE SumFold(_, _)
SumFold(d, rows) == IF rows = <<>> THEN d ELSE SumFold(SumRowStep(d, rows[1]), Tail(rows))

\* Lines 64-65: the items of the mapping sorted by Telomere_End as plain strings
RECURSIVE LexSortedItems(_, _)
LexSortedItems(d, keys) ==
  IF keys = {} THEN <<>>
  ELSE LET m == CHOOSE k \in keys : \A x \in keys \ {k} : StrLess(k, x)
       IN << [Telomere_End |-> m, Max_TL_p75 |-> d[m]] >> \o LexSortedItems(d, keys \ {m})

SummaryTable(d) == LexSortedItems(d, DOMAIN d)

\* Faulty variant of SumHasColumns: only '#chr' is looked for
SumHasColumnsChrOnly(header) == "#chr" \in header

\* Line 35
SumHasColumns(header) == "#chr" \in header /\ "TL_p75" \in header

InitSum == prog = "summary" /\ input_exists \in BOOLEAN /\ fai_exists = TRUE /\ Blank

\* Lines 137-144
SumParseArgs ==
  /\ prog = "summary" /\ pc = "start"
  /\ \E argv \in {"short", "complete"} :
       IF argv = "short" THEN Exit("1") ELSE pc' = "read_csv" /\ exit_status' = exit_status
  /\ UNCHANGED <<envVars, fai_lines, columns, df, qcVars, sumVars, faiVars, output_opened>>

\* Lines 21-37: pd.read_csv on the path, then the column check
SumReadCsv ==
  /\ prog = "summary" /\ pc = "read_csv"
  /\ IF ~input_exists THEN Exit("1") /\ columns' = columns
     ELSE \E header \in HeaderUniverse :
            /\ columns' = header
            /\ IF ~SumHasColumns(header) THEN Exit("1")
               ELSE pc' = "rows" /\ exit_status' = exit_status
  /\ UNCHANGED <<envVars, fai_lines, df, qcVars, sumVars, faiVars, output_opened>>

\* Lines 24-30: the table exists and cannot be parsed
SumReadCsvFails ==
  /\ prog = "summary" /\ pc = "read_csv" /\ input_exists
  /\ Exit("1")
  /\ UNCHANGED <<envVars, fai_lines, columns, df, qcVars, sumVars, faiVars, output_opened>>

\* Lines 40-61: one row of the table; int() of an infinity raises OverflowError,
\* which nothing catches
SumRow ==
  /\ prog = "summary" /\ pc = "rows" /\ Len(df) < MaxRows
  /\ \E field \in EndFieldUniverse, cell \in TlCellUniverse :
       LET row == [chr |-> field, TL_p75 |-> cell] IN
       /\ df' = Append(df, row)
       /\ IF Numeric(cell).kind = "inf"
          THEN Exit("1") /\ max_tl_by_end' = max_tl_by_end
          ELSE /\ max_tl_by_end' = SumRowStep(max_tl_by_end, row)
               /\ pc' = pc /\ exit_status' = exit_status
  /\ UNCHANGED <<envVars, fai_lines, columns, qcVars, max_tl_df, faiVars, output_opened>>

\* Lines 64-133, once the loop is over: the per-end table of the report (the
\* statistics of part 2 are computed from it and change nothing else)
SumReport ==
  /\ prog = "summary" /\ pc = "rows"
  /\ max_tl_df' = SummaryTable(max_tl_by_end)
  /\ pc' = "write"
  /\ UNCHANGED <<envVars, exit_status, fai_lines, columns, df, qcVars, max_tl_by_end,
                 faiVars, output_opened>>

\* Lines 150-157
SumWrite ==
  /\ prog = "summary" /\ pc = "write"
  /\ \E outcome \in {"open_fails", "write_fails", "written"} :
       /\ output_opened' = (outcome /= "open_fails")
       /\ IF outcome = "written" THEN pc' = "done" /\ exit_status' = "0" ELSE Exit("1")
  /\ UNCHANGED <<envVars, fai_lines, columns, df, qcVars, sumVars, faiVars>>

NextSum == SumParseArgs \/ SumReadCsv \/ SumReadCsvFails \/ SumRow \/ SumReport \/ SumWrite
SpecSum == InitSum /\ [][NextSum]_vars

(* ------------------------------------------------------------------ *)
(* Any of the three programs                                            *)
(* ------------------------------------------------------------------ *)
Init == InitFai \/ InitQc \/ InitSum
Next == NextFai \/ NextQc \/ NextSum
Spec == Init /\ [][Next]_vars

(* ------------------------------------------------------------------ *)
(* Vocabulary of the claims                                             *)
(* ------------------------------------------------------------------ *)

\* The parts of a row as the specification defines them: the end field (as the
\* program reads it, str(entry)) split on ',', each part trimmed, empty parts
\* discarded
SpecParts(field) ==
  LET raw == Split(CellStr(field), ",")
      trimmed == [i \in DOMAIN raw |-> Strip(raw[i])]
  IN SelectSeq(trimmed, LAMBDA e : e /= <<>>)

SpecPartsTable == [f \in EndFieldUniverse |-> SpecParts(f)]
PartsOf(field) == IF field \in EndFieldUniverse THEN SpecPartsTable[field] ELSE SpecParts(field)

SetMax(S) == CHOOSE m \in S : \A x \in S : x <= m

\* The sum of the numbers of parts of the rows
RECURSIVE SpecTotal(_)
SpecTotal(rows) ==
  IF rows = <<>> THEN 0 ELSE Len(PartsOf(rows[1].chr)) + SpecTotal(Tail(rows))

\* The number of rows with exactly one part
SpecUnambiguous(rows) == Cardinality({i \in DOMAIN rows : Len(PartsOf(rows[i].chr)) = 1})

NoRepeats(list) == \A i, j \in DOMAIN list : list[i] = list[j] => i = j

QcLoopRan == prog = "qc" /\ pc \in {"rows", "write", "done"}
QcFormatted == prog = "qc" /\ output_lines /= <<>>
SumLoopRan == prog = "summary" /\ pc \in {"rows", "write", "done"}

(* ------------------------------------------------------------------ *)
(* C1                                                                  *)
(* ------------------------------------------------------------------ *)
NumericRows == {i \in DOMAIN df : Numeric(df[i].TL_p75).kind = "num"}
RowsMentioning(e) == {i \in NumericRows : e \in Range(PartsOf(df[i].chr))}
RowValue(i) == IntTrunc(Numeric(df[i].TL_p75).tenths)

\* C1: after the summary has folded any rows with a numeric TL_p75, the ends it
\* reports are exactly the ends some row mentions, and the value of each is the
\* maximum of the integer-truncated TL_p75 of the rows that mention it.
C1_MaxOverMentioningRows ==
  SumLoopRan =>
    /\ DOMAIN max_tl_by_end = UNION {Range(PartsOf(df[i].chr)) : i \in NumericRows}
    /\ \A e \in DOMAIN max_tl_by_end :
         RowsMentioning(e) /= {} =>
           max_tl_by_end[e] = SetMax({RowValue(i) : i \in RowsMentioning(e)})

(* ------------------------------------------------------------------ *)
(* C2                                                                  *)
(* ------------------------------------------------------------------ *)
\* C2: in the coverage report 'total' is the sum over the rows of their numbers
\* of parts and 'unambiguous' is the number of rows with exactly one part, the
\* parts being the trimmed non-empty pieces of the end field.
C2_CountersCountParts ==
  QcLoopRan =>
    /\ total_count = SpecTotal(df)
    /\ unambiguous_count = SpecUnambiguous(df)

(* ------------------------------------------------------------------ *)
(* C3                                                                  *)
(* ------------------------------------------------------------------ *)
ColumnAsClaimed(listing, column) ==
  IF listing = <<>>
  THEN /\ Len(column) >= 1
       /\ column[1] = NoneToken
       /\ \A i \in DOMAIN column : i > 1 => column[i] = <<>>
  ELSE \A i \in DOMAIN column :
         column[i] = (IF i <= Len(listing) THEN listing[i] ELSE <<>>)

\* C3: each column of the two-column listing shows "none" in its first row and
\* blanks below when its listing is empty, and otherwise its entries in order and
\* blanks once exhausted; the rows are as many as the longer listing has entries.
C3_NoneInEachEmptyColumn ==
  QcFormatted =>
    LET table == output_lines.table
        longer == Max(Len(ambiguous_ends_sorted), Len(missing_ends))
    IN /\ longer > 0 => Len(table) = longer
       /\ ColumnAsClaimed(ambiguous_ends_sorted, [i \in DOMAIN table |-> table[i].ambig])
       /\ ColumnAsClaimed(missing_ends, [i \in DOMAIN table |-> table[i].miss])

(* ------------------------------------------------------------------ *)
(* C4                                                                  *)
(* ------------------------------------------------------------------ *)
CatalogueNames(lines) == DOMAIN ConvertFai(lines).lexico_2_ind
CatalogueEnds(lines) == UNION {{n \o P, n \o Q} : n \in CatalogueNames(lines)}

\* C4: the missing-ends listing holds exactly the ends of the catalogue built from
\* the reference index (chrU included) that no row mentions, each of them once.
C4_MissingIsCatalogueMinusFound ==
  QcFormatted =>
    /\ Range(missing_ends) = CatalogueEnds(fai_lines) \ found_ends
    /\ NoRepeats(missing_ends)

(* ------------------------------------------------------------------ *)
(* C5                                                                  *)
(* ------------------------------------------------------------------ *)
\* A line with at least two fields whose second field is an integer
LineParses(line) ==
  LET fields == Split(Strip(line), "\t") IN Len(fields) >= 2 /\ IntParses(fields[2])
ParsedNames ==
  LET parsed == SelectSeq(fai_lines, LineParses)
  IN [i \in DOMAIN parsed |-> Split(Strip(parsed[i]), "\t")[1]]
LastOf(names, n) == SetMax({i \in DOMAIN names : names[i] = n})

\* C5: the rank of a record is its position among the successfully parsed lines
\* (the counter starts at 1 and moves only on such lines), so ranks are distinct
\* and grow in input order; on return chrU has rank (parsed lines) + 1 and no
\* length when no parsed record is named chrU, and otherwise keeps its parsed
\* rank with no entry added.
C5_RanksAndChrU ==
  (prog = "fai" /\ pc \in {"lines", "returned"}) =>
    LET names == ParsedNames
        parsedNames == Range(names)
    IN /\ current_index = Len(names) + 1
       /\ \A n \in parsedNames :
            n \in DOMAIN lexico_2_ind /\ lexico_2_ind[n] = LastOf(names, n)
       /\ \A m, n \in DOMAIN lexico_2_ind : lexico_2_ind[m] = lexico_2_ind[n] => m = n
       /\ \A i, j \in DOMAIN names :
            (i < j /\ i = LastOf(names, names[i]) /\ j = LastOf(names, names[j]))
              => lexico_2_ind[names[i]] < lexico_2_ind[names[j]]
       /\ DOMAIN t2t_chromsize = parsedNames
       /\ pc = "lines" => DOMAIN lexico_2_ind = parsedNames
       /\ pc = "returned" =>
            IF ChrU \in parsedNames
            THEN DOMAIN lexico_2_ind = parsedNames
            ELSE /\ DOMAIN lexico_2_ind = parsedNames \cup {ChrU}
                 /\ lexico_2_ind[ChrU] = Len(names) + 1

\* A returned catalogue with a synthesized chrU after a parsed record and a line
\* whose length is no integer
C5_Witness ==
  /\ prog = "fai" /\ pc = "returned"
  /\ ParsedNames /= <<>> /\ ChrU \notin Range(ParsedNames)
  /\ \E i \in DOMAIN fai_lines :
       Len(Split(Strip(fai_lines[i]), "\t")) >= 2 /\ ~LineParses(fai_lines[i])
  /\ lexico_2_ind[ChrU] = Len(ParsedNames) + 1

(* ------------------------------------------------------------------ *)
(* C6                                                                  *)
(* ------------------------------------------------------------------ *)
Reports == {"qc", "summary"}
PastInputChecks == pc \in {"rows", "write", "done"} \/ output_opened
ExitsNonZero == pc = "exit" => exit_status \in {"1", "2"}
ReportComputed ==
  IF prog = "qc" THEN output_lines /= <<>> ELSE max_tl_df = SummaryTable(max_tl_by_end)

\* C6 as stated: in both report programs a missing input file, or a measurement
\* table without an end column ('#chr' or 'chr') or without 'TL_p75', never gets
\* past the input checks; the output is never opened and an exit is non-zero.
C6_BothReportsRequireBothColumns ==
  (/\ prog \in Reports
   /\ \/ ~input_exists
      \/ prog = "qc" /\ ~fai_exists
      \/ "TL_p75" \notin columns
      \/ "#chr" \notin columns /\ "chr" \notin columns)
    => ~PastInputChecks /\ ExitsNonZero

\* C6 amended: the summary report requires '#chr' and 'TL_p75', the coverage
\* report requires only an end column ('#chr' or 'chr'); with a missing input
\* file or a missing required column the run never gets past the input checks,
\* the output is never opened and an exit is non-zero; the output is opened only
\* once the report is computed, and after that only the write can fail.
C6_RequiredInputsBeforeWrite ==
  prog \in Reports =>
    /\ (\/ ~input_exists
        \/ prog = "qc" /\ (~fai_exists \/ ("#chr" \notin columns /\ "chr" \notin columns))
        \/ prog = "summary" /\ ("#chr" \notin columns \/ "TL_p75" \notin columns))
         => ~PastInputChecks /\ ExitsNonZero
    /\ ExitsNonZero
    /\ output_opened => ReportComputed /\ pc \in {"done", "exit"}
    /\ pc \in {"write", "done"} => ReportComputed
    /\ (pc = "exit" /\ output_opened) => exit_status = "1"

\* A run of each kind stopped by a missing column: here the summary report on a
\* table that has '#chr' and no 'TL_p75'
C6_Witness ==
  /\ prog = "summary" /\ input_exists
  /\ columns = {"#chr"}
  /\ pc = "exit" /\ exit_status = "1" /\ ~output_opened

(* ------------------------------------------------------------------ *)
(* C7                                                                  *)
(* ------------------------------------------------------------------ *)
MultiPartRows == {i \in DOMAIN df : Len(PartsOf(df[i].chr)) > 1}

EndsOfMultiPartRows == UNION {Range(PartsOf(df[i].chr)) : i \in MultiPartRows}

\* C7: an end that has appeared in a row with another end is in the ambiguous
\* set; the set only grows; and after any rows it is exactly the set of ends that
\* occur in at least one row of two or more parts.
C7_AmbiguousIsEndsOfMultiPartRows ==
  /\ [](QcLoopRan => EndsOfMultiPartRows \subseteq ambiguous_set)
  /\ [][ambiguous_set \subseteq ambiguous_set']_vars
  /\ [](QcLoopRan => ambiguous_set = EndsOfMultiPartRows)

(* ------------------------------------------------------------------ *)
(* C8                                                                  *)
(* ------------------------------------------------------------------ *)
PermsOf == [n \in 0..(MaxRows + 1) |->
              {f \in [1..n -> 1..n] : \A i, j \in 1..n : f[i] = f[j] => i = j}]
Permuted(rows, f) == [i \in DOMAIN rows |-> rows[f[i]]]

\* C8: folding the rows in any other order gives the same end-to-maximum mapping
\* and the same lexically sorted table.
C8_OrderIndependent ==
  (prog = "summary" /\ pc = "write") =>
    \A f \in PermsOf[Len(df)] :
      LET other == SumFold(EmptyDict, Permuted(df, f))
      IN other = max_tl_by_end /\ SummaryTable(other) = max_tl_df

\* Two rows that mention the same end, the larger value first
C8_Witness ==
  /\ prog = "summary" /\ pc = "write" /\ Len(df) >= 2
  /\ \E i, j \in NumericRows :
       /\ i < j /\ RowValue(i) > RowValue(j) /\ RowValue(j) >= 0
       /\ Range(PartsOf(df[i].chr)) \cap Range(PartsOf(df[j].chr)) /= {}

(* ------------------------------------------------------------------ *)
(* C9                                                                  *)
(* ------------------------------------------------------------------ *)
Before(list, a, b) ==
  \A i, j \in DOMAIN list : (list[i] = a /\ list[j] = b) => i < j

\* a and b are the same but for one run of digits
DifferInOneDigitRun(a, b) ==
  LET ra == ReSplitDigits(a)
      rb == ReSplitDigits(b)
  IN /\ Len(ra) = Len(rb)
     /\ \E k \in DOMAIN ra :
          /\ IsDigit(ra[k]) /\ IsDigit(rb[k]) /\ ra[k] /= rb[k]
          /\ \A i \in DOMAIN ra : i /= k => ra[i] = rb[i]
DigitRunValue(a, b) ==
  LET ra == ReSplitDigits(a)
      rb == ReSplitDigits(b)
      k == CHOOSE k \in DOMAIN ra : ra[k] /= rb[k]
  IN DigitsValue(ra[k], 0)

\* Pairs of ends that differ in one digit run, the first with the larger number
LargerDigitRunFirst ==
  {pair \in QcEndUniverse \X QcEndUniverse :
     /\ DifferInOneDigitRun(pair[1], pair[2])
     /\ DigitRunValue(pair[1], pair[2]) > DigitRunValue(pair[2], pair[1])}
\* Pairs of ends whose second is naturally smaller than the first
NaturallyLargerFirst ==
  {pair \in QcEndUniverse \X QcEndUniverse : NatLess(pair[2], pair[1])}

\* Pairs of ends without digits, the first the larger when case is ignored
HasNoDigit(e) == \A i \in DOMAIN e : ~IsDigitChar(e[i])
LargerLettersFirst ==
  {pair \in QcEndUniverse \X QcEndUniverse :
     /\ HasNoDigit(pair[1]) /\ HasNoDigit(pair[2])
     /\ StrLess(Lower(pair[2]), Lower(pair[1]))}

NaturallyOrdered(list) ==
  /\ Range(list) \subseteq QcEndUniverse
  /\ Before(list, Chr2p, Chr10p)
  /\ \A i, j \in DOMAIN list :
       i < j => /\ <<list[i], list[j]>> \notin LargerDigitRunFirst
                /\ <<list[i], list[j]>> \notin NaturallyLargerFirst
                /\ <<list[i], list[j]>> \notin LargerLettersFirst

\* C9: both columns of the coverage report are in natural order, "chr2p" before
\* "chr10p", identifiers that differ in one digit run ordered by its value and
\* identifiers without digits ordered as strings with case ignored; the
\* table of the summary report is in plain string order, "chr10p" before "chr2p".
C9_NaturalAndLexicalOrder ==
  /\ (prog = "qc" /\ pc = "write") =>
       NaturallyOrdered(ambiguous_ends_sorted) /\ NaturallyOrdered(missing_ends)
  /\ (prog = "summary" /\ pc = "write") =>
       LET ends == [i \in DOMAIN max_tl_df |-> max_tl_df[i].Telomere_End]
       IN /\ Before(ends, Chr10p, Chr2p)
          /\ \A i, j \in DOMAIN ends : i < j => StrLess(ends[i], ends[j])
          /\ Range(ends) = DOMAIN max_tl_by_end

\* A coverage report whose two columns each hold a "2" and a "10" identifier
C9_Witness ==
  /\ prog = "qc" /\ pc = "write"
  /\ ambiguous_ends_sorted = <<Chr2p, Chr10p>>
  /\ \E i, j \in DOMAIN missing_ends :
       i < j /\ DifferInOneDigitRun(missing_ends[i], missing_ends[j])

(* ------------------------------------------------------------------ *)
(* C10                                                                 *)
(* ------------------------------------------------------------------ *)
\* C10: every ambiguous end is a found end, so no end is listed both in the
\* ambiguous column and in the missing column.
C10_AmbiguousAreFound ==
  prog = "qc" =>
    /\ ambiguous_set \subseteq found_ends
    /\ pc = "write" => Range(ambiguous_ends_sorted) \cap Range(missing_ends) = {}

\* A report with an ambiguous end the index expects and a missing end beside it
C10_Witness ==
  /\ prog = "qc" /\ pc = "write"
  /\ \E e \in Range(ambiguous_ends_sorted) : e \in Range(expected_ends)
  /\ missing_ends /= <<>>

====
